---- MODULE Spec2Model ----
(***************************************************************************)
(* Delta-tracking synchronisation pipeline: the scraper (scraper.py) that  *)
(* classifies fetched articles against the fingerprint ledger and writes   *)
(* the changed ones, followed by the uploader (upload.py, file_handlers.py,*)
(* vector_store.py) that submits the changed set in batches.               *)
(***************************************************************************)
EXTENDS Integers, Sequences, FiniteSets, TLC

\* ------------------------------------------------------------------ bounds
MaxDocs == 2      \* length of the remote collection
MaxRuns == 2      \* pipeline runs in one behaviour
MaxFaults == 1    \* injected failures in one behaviour of the pipeline
MaxPaths == 3     \* size of the delta set handed to the upload stage alone
MaxBatch == 2     \* batch_size argument handed to the upload stage alone
MaxCallers == 3   \* concurrent callers of ensure_vector_store_exists
MaxPages == 3     \* pages the source serves to fetch_articles alone
MaxPerm == 3      \* largest set whose iteration orders are all enumerated
MaxTitle == 4     \* length of the titles handed to the slug derivation alone

\* ------------------------------------------------------- program constants
BATCH_SIZE == 10
per_page == 10                  \* fetch_articles(per_page=10)
PAUSE_EVERY == 20               \* the pause test of fetch_articles, line 51

\* ------------------------------------------------------------------ values
None == 0                       \* article.get('id') is None
Ids == {1, 2}
Bodies == {1, 2}
Titles == {<<"a", "!", "b">>}
VECTOR_STORE_NAME == "optibot_vector_store_v1"

\* A document without id is skipped before its body is read: one body stands
\* for all of them.
Doc == [id : Ids, title : Titles, body : Bodies]
       \cup [id : {None}, title : Titles, body : {1}]

RECURSIVE SeqsUpTo(_, _)
SeqsUpTo(S, n) ==
    IF n = 0 THEN {<<>>}
    ELSE LET shorter == SeqsUpTo(S, n - 1)
         IN shorter \cup {Append(s, x) : s \in {t \in shorter : Len(t) = n - 1}, x \in S}

\* The collections, up to a renaming of ids and of bodies: the first document
\* with an id has id 1 and body 1.
Canonical(r) ==
    \A k \in 1..Len(r) :
        (r[k].id # None /\ \A j \in 1..(k - 1) : r[j].id = None)
            => (r[k].id = 1 /\ r[k].body = 1)

Remotes == {r \in SeqsUpTo(Doc, MaxDocs) : Canonical(r)}

\* A dict is a function whose domain is its key set.
EmptyDict == [k \in {} |-> 0]
Put(d, k, v) == [x \in (DOMAIN d) \cup {k} |-> IF x = k THEN v ELSE d[x]]

\* ------------------------------------------------------------ pure helpers
\* hashlib.sha256(...).hexdigest(): a digest, injective on the bodies of the
\* model and never equal to a body.
calculate_content_hash(content) == <<"sha256", content>>

\* str(article_id)
Str(article_id) == ToString(article_id)

IsWord(c) == c \in {"a", "b", "_"}
IsSpace(c) == c \in {" "}

\* re.sub(r'[^\w\s-]', '-', title): every single character that is not a
\* word character, whitespace or '-' becomes '-'.
SubNonWord(title) ==
    [k \in 1..Len(title) |->
        IF IsWord(title[k]) \/ IsSpace(title[k]) \/ title[k] = "-"
        THEN title[k] ELSE "-"]

\* re.sub(r'\s+', '-', s): every maximal run of whitespace becomes one '-'.
RECURSIVE SubSpaces(_)
SubSpaces(s) ==
    IF s = <<>> THEN <<>>
    ELSE IF IsSpace(Head(s))
         THEN IF Len(s) > 1 /\ IsSpace(s[2])
              THEN SubSpaces(Tail(s))
              ELSE <<"-">> \o SubSpaces(Tail(s))
         ELSE <<Head(s)>> \o SubSpaces(Tail(s))

\* s.strip('-')
RECURSIVE LStrip(_)
LStrip(s) == IF s # <<>> /\ Head(s) = "-" THEN LStrip(Tail(s)) ELSE s
RECURSIVE RStrip(_)
RStrip(s) ==
    IF s # <<>> /\ s[Len(s)] = "-" THEN RStrip(SubSeq(s, 1, Len(s) - 1)) ELSE s
Strip(s) == RStrip(LStrip(s))

clean_title_of(title) == Strip(SubSpaces(SubNonWord(title)))

\* markdownify of the cleaned HTML: not injective, two raw bodies that differ
\* only in removed markup render to the same text.
Render(body) == (body + 1) \div 2

\* Mutant: a failed conversion yields an empty document without the marker.
convert_article_to_markdown_Blank(article, render_ok) ==
    IF render_ok
    THEN [kind |-> "markdown", title |-> article.title, text |-> Render(article.body)]
    ELSE [kind |-> "markdown", title |-> <<>>, text |-> 0]

\* convert_article_to_markdown: the rendered document, or the degraded one.
convert_article_to_markdown(article, render_ok) ==
    IF render_ok
    THEN [kind |-> "markdown", title |-> article.title, text |-> Render(article.body)]
    ELSE [kind |-> "failed", title |-> article.title, text |-> 0]

\* The content of a <slug>.md file: what was written, and (history) the hash
\* of the raw body it was written from.
MdFile(markdown_content, content_hash) ==
    [content |-> markdown_content, of |-> content_hash]

\* A file whose write failed after open(path, "w") truncated it.
Partial == [content |-> [kind |-> "partial", title |-> <<>>, text |-> 0], of |-> <<>>]
PartialMeta == [kind |-> "partial", id |-> None, title |-> <<>>, content_hash |-> <<>>]

\* os.path.join("articles", article_id, f"{clean_title}.md")
MdPath(article_id_str, clean_title) == <<"articles", article_id_str, clean_title>>

\* Mutant: a tracked id is reported updated whatever its hash.
Classify_AlwaysChanged(article_id_str, content_hash, tracked_metadata) ==
    IF article_id_str \notin DOMAIN tracked_metadata THEN "new" ELSE "updated"

\* Mutant: the stored hash is never compared, a tracked id is never updated.
Classify_NeverUpdated(article_id_str, content_hash, tracked_metadata) ==
    IF article_id_str \notin DOMAIN tracked_metadata THEN "new" ELSE "skipped"

\* Mutant: an id without ledger entry is reported updated.
Classify_NewAsUpdated(article_id_str, content_hash, tracked_metadata) ==
    IF article_id_str \notin DOMAIN tracked_metadata THEN "updated"
    ELSE IF tracked_metadata[article_id_str].content_hash # content_hash THEN "updated"
    ELSE "skipped"

\* The classification of save_article_as_markdown, lines 94-99.
Classify(article_id_str, content_hash, tracked_metadata) ==
    IF article_id_str \notin DOMAIN tracked_metadata THEN "new"
    ELSE IF tracked_metadata[article_id_str].content_hash # content_hash THEN "updated"
    ELSE "skipped"

\* --------------------------------------------------------------- the state
VARIABLES
    remote,            \* the source collection, as the API returns it
    ledgerFile,        \* articles_metadata.json
    dirs,              \* articles/<id> directories
    mdFiles,           \* path -> content of the <slug>.md files
    sidecars,          \* id -> content of articles/<id>/metadata.json
    stores,            \* the index service: names of its vector stores, id = position
    pc,                \* position of the pipeline
    runs,              \* completed runs
    budget,            \* failures the environment may still inject
    tracked_metadata,  \* the in-memory ledger
    articles,          \* the fetched sequence
    i,                 \* loop index of main over articles
    new_count, updated_count, skipped_count,
    new_articles, updated_articles,
    calls,             \* concurrent callers of ensure_vector_store_exists
    batch_size,        \* batch_size argument of the upload stage
    vector_store_id,   \* 0 until index resolution returned
    valid_paths,
    missing_paths,
    batch_num,         \* loop variable of the batch loop
    total_batches,
    total_files_embedded, total_chunks_embedded,
    successful_batches, failed_batches,
    snapshot,          \* history: tracked_metadata as loaded at run start
    outcomes,          \* history: one record per processed article
    batches,           \* history: one record per attempted batch of this run
    indexed,           \* history: <<id, hash>> submitted in a batch that succeeded
    resubmitted,       \* history: a version already indexed was submitted again
    cleanScrape,       \* history: no failure in the scrape stage of this run
    prevClean,         \* history: cleanScrape of the previous run
    remoteChanged,     \* history: the remote changed since the previous run
    source,            \* the pages the source API serves, page k at cursor k
    url,               \* fetch_articles: the cursor, 0 for None
    page_count,        \* fetch_articles
    article_count,     \* fetch_articles
    pauses,            \* history: time.sleep calls of fetch_articles
    file_streams,      \* the file handles open for a batch
    events,            \* history: what this run read, wrote, called and logged
    persistedBefore,   \* history: ids persisted by the runs before this one
    failedBefore       \* history: documents whose write failed in the run before

fsVars == <<dirs, mdFiles, sidecars>>
scrapeVars == <<tracked_metadata, articles, i, new_count, updated_count,
                skipped_count, new_articles, updated_articles>>
uploadVars == <<vector_store_id, valid_paths, missing_paths, batch_num, total_batches,
                total_files_embedded, total_chunks_embedded, successful_batches,
                failed_batches, batches>>
runHist == <<snapshot, outcomes, cleanScrape>>
histVars == <<runHist, indexed, resubmitted, prevClean, remoteChanged>>
fetchVars == <<source, url, page_count, article_count, pauses>>
vars == <<remote, ledgerFile, fsVars, stores, calls, pc, runs, budget, scrapeVars,
          batch_size, uploadVars, histVars, fetchVars, file_streams, events,
          persistedBefore, failedBefore>>

LedgerAbsent == [state |-> "absent", data |-> EmptyDict]

\* fetch_articles is not running.
FetchIdle ==
    /\ source = <<>>
    /\ url = 0
    /\ page_count = 0 /\ article_count = 0 /\ pauses = 0

\* An entry of the run's history.
Event(op, arg) == [op |-> op, arg |-> arg]

UploadIdle ==
    /\ vector_store_id = 0
    /\ valid_paths = <<>> /\ missing_paths = <<>>
    /\ batch_num = 0 /\ total_batches = 0
    /\ total_files_embedded = 0 /\ total_chunks_embedded = 0
    /\ successful_batches = 0 /\ failed_batches = 0
    /\ batches = <<>>

\* A fresh installation: nothing on disk, no index on the service.
Init ==
    /\ remote \in Remotes
    /\ ledgerFile = LedgerAbsent
    /\ dirs = {}
    /\ mdFiles = EmptyDict
    /\ sidecars = EmptyDict
    /\ stores = <<>>
    /\ calls = <<>>
    /\ pc = "idle"
    /\ runs = 0
    /\ budget = MaxFaults
    /\ tracked_metadata = EmptyDict
    /\ articles = <<>>
    /\ i = 1
    /\ new_count = 0 /\ updated_count = 0 /\ skipped_count = 0
    /\ new_articles = {} /\ updated_articles = {}
    /\ batch_size = BATCH_SIZE
    /\ UploadIdle
    /\ snapshot = EmptyDict
    /\ outcomes = <<>>
    /\ indexed = {}
    /\ resubmitted = FALSE
    /\ cleanScrape = TRUE
    /\ prevClean = FALSE
    /\ remoteChanged = FALSE
    /\ FetchIdle
    /\ file_streams = <<>>
    /\ events = <<>>
    /\ persistedBefore = {}
    /\ failedBefore = {}

\* The environment injects a failure only while its budget lasts.
Fault(is_fault) ==
    /\ is_fault => budget > 0
    /\ budget' = IF is_fault THEN budget - 1 ELSE budget

\* load_tracked_metadata: the parsed file, or {} when it is absent or
\* cannot be read.
load_tracked_metadata ==
    IF ledgerFile.state = "ok" THEN ledgerFile.data ELSE EmptyDict

\* main, lines 153-175: create the content root, load the ledger, fetch.
\* fetch_articles returns the pages before the first failing page, so any
\* prefix of the collection.
MainStart ==
    /\ pc = "idle"
    /\ runs < MaxRuns
    /\ \E root_ok \in BOOLEAN, fetched \in 0..Len(remote) :
         /\ Fault(~root_ok \/ fetched < Len(remote))
         /\ IF root_ok
            THEN /\ tracked_metadata' = load_tracked_metadata
                 /\ articles' = SubSeq(remote, 1, fetched)
                 /\ pc' = "process"
                 /\ cleanScrape' = (fetched = Len(remote))
                 /\ events' = <<Event("ledger_read", ledgerFile.state)>>
            ELSE \* os.makedirs raised: main returns ({new: {}, updated: {}}, {})
                 /\ fetched = Len(remote)
                 /\ tracked_metadata' = EmptyDict
                 /\ articles' = <<>>
                 /\ pc' = "upload"
                 /\ cleanScrape' = FALSE
                 /\ events' = <<Event("scrape_failed", "makedirs")>>
         /\ snapshot' = tracked_metadata'
    /\ i' = 1
    /\ new_count' = 0 /\ updated_count' = 0 /\ skipped_count' = 0
    /\ new_articles' = {} /\ updated_articles' = {}
    /\ outcomes' = <<>>
    /\ UNCHANGED <<remote, ledgerFile, fsVars, stores, runs, calls, batch_size, uploadVars,
                   indexed, resubmitted, prevClean, remoteChanged, fetchVars,
                   file_streams, persistedBefore, failedBefore>>

\* Where the write sequence of lines 105-125 raises: opening the content file
\* (nothing is written), writing it, or writing the sidecar (open(path, "w") has
\* truncated the file by then).
IoOutcomes == {"ok", "md_open", "md_write", "meta_write"}

\* Mutant: the ledger is updated before the writes are known to have succeeded.
Saved_BeforeWrites(writes, io) == writes

\* save_article_as_markdown reaches lines 127-135 (the ledger update and
\* return True) only when no step of the write sequence raised.
Saved(writes, io) == writes /\ io = "ok"

\* Mutant: the ledger file is rewritten after every document.
LedgerFileAfterDocument_Saved(file, tracked) == [state |-> "ok", data |-> tracked]

\* save_article_as_markdown and the loop of main mutate the in-memory ledger
\* only: the ledger file is after a document what it was before it.
LedgerFileAfterDocument(file, tracked) == file

\* Mutant: the hash is taken of the normalised text.
content_of_Rendered(article) == Render(article.body)

\* content = article.get('body', ''): what is hashed is the raw body.
content_of(article) == article.body

\* One iteration of main's loop (lines 176-186) with the whole of
\* save_article_as_markdown (lines 76-139). io is the step of the write
\* sequence that raises, render_ok whether the conversion succeeded.
ProcessArticle ==
    /\ pc = "process"
    /\ i <= Len(articles)
    /\ \E io \in IoOutcomes, render_ok \in BOOLEAN :
        LET article == articles[i]
            article_id == article.id
            content_hash == calculate_content_hash(content_of(article))
            article_id_str == Str(article_id)
            clean_title == clean_title_of(article.title)
            status == IF article_id = None THEN "noid"
                      ELSE Classify(article_id_str, content_hash, tracked_metadata)
            writes == status \in {"new", "updated"}
            rendered == writes /\ io \in {"md_write", "meta_write", "ok"}
            markdown_path == MdPath(article_id_str, clean_title)
            saved == Saved(writes, io)
            metadata == [kind |-> "metadata", id |-> article_id,
                         title |-> article.title, content_hash |-> content_hash]
        IN
        /\ ~writes => io = "ok"
        /\ ~rendered => render_ok
        /\ Fault(io # "ok" \/ ~render_ok)
        /\ dirs' = IF writes THEN dirs \cup {article_id_str} ELSE dirs
        /\ mdFiles' =
             IF writes /\ io = "md_write" THEN Put(mdFiles, markdown_path, Partial)
             ELSE IF writes /\ io \in {"meta_write", "ok"}
                  THEN Put(mdFiles, markdown_path,
                           MdFile(convert_article_to_markdown(article, render_ok),
                                  content_hash))
             ELSE mdFiles
        /\ sidecars' =
             IF writes /\ io = "meta_write"
             THEN Put(sidecars, article_id_str, PartialMeta)
             ELSE IF saved THEN Put(sidecars, article_id_str, metadata)
             ELSE sidecars
        /\ tracked_metadata' =
             IF saved
             THEN Put(tracked_metadata, article_id_str,
                      [clean_title |-> clean_title, content_hash |-> content_hash])
             ELSE tracked_metadata
        /\ new_count' = IF saved /\ status = "new" THEN new_count + 1 ELSE new_count
        /\ new_articles' =
             IF saved /\ status = "new" THEN new_articles \cup {article_id_str}
             ELSE new_articles
        /\ updated_count' =
             IF saved /\ status = "updated" THEN updated_count + 1 ELSE updated_count
        /\ updated_articles' =
             IF saved /\ status = "updated" THEN updated_articles \cup {article_id_str}
             ELSE updated_articles
        /\ skipped_count' = IF saved THEN skipped_count ELSE skipped_count + 1
        /\ outcomes' = Append(outcomes,
             [class |-> status, saved |-> saved,
              status |-> IF saved THEN status ELSE "skipped",
              io |-> io, render_ok |-> render_ok])
        /\ cleanScrape' = (cleanScrape /\ io = "ok")
    /\ ledgerFile' = LedgerFileAfterDocument(ledgerFile, tracked_metadata)
    /\ i' = i + 1
    /\ UNCHANGED <<remote, stores, pc, runs, articles, calls, batch_size,
                   uploadVars, snapshot, indexed, resubmitted, prevClean,
                   remoteChanged, fetchVars, file_streams, events, persistedBefore, failedBefore>>

SaveOutcomes == {"ok", "open", "write"}

\* Mutant: the ledger file is never rewritten.
save_tracked_metadata_Never(save, tracked, file) == file

\* save_tracked_metadata: the file after the call. A failed open leaves it as
\* it was, a failed write leaves it truncated.
save_tracked_metadata(save, tracked, file) ==
    IF save = "ok" THEN [state |-> "ok", data |-> tracked]
    ELSE IF save = "write" THEN [state |-> "corrupt", data |-> EmptyDict]
    ELSE file

\* main, lines 188-206: save_tracked_metadata, the summary, and the return
\* to the caller, which starts the upload stage.
MainFinish ==
    /\ pc = "process"
    /\ i > Len(articles)
    /\ \E save \in SaveOutcomes :
        /\ Fault(save # "ok")
        /\ ledgerFile' = save_tracked_metadata(save, tracked_metadata, ledgerFile)
        /\ cleanScrape' = (cleanScrape /\ save = "ok")
        /\ events' = events \o <<Event("ledger_write", save),
                                  Event("scrape_summary", "counts")>>
    /\ pc' = "upload"
    /\ UNCHANGED <<remote, fsVars, stores, runs, scrapeVars, calls, batch_size, uploadVars,
                   snapshot, outcomes, indexed, resubmitted, prevClean, remoteChanged,
                   fetchVars, file_streams, persistedBefore, failedBefore>>

\* ---------------------------------------------------------- upload stage
\* The upload stage returns: the run is over and its summary stands.
EndRun ==
    /\ pc' = "done"
    /\ runs' = runs + 1

\* get_vector_store_by_name: the id of the first store with that name, 0 for None.
get_vector_store_by_name(listing, name) ==
    IF \E k \in 1..Len(listing) : listing[k] = name
    THEN CHOOSE k \in 1..Len(listing) :
            /\ listing[k] = name
            /\ \A j \in 1..(k - 1) : listing[j] # name
    ELSE 0

\* get_article_file_path: "" (here <<>>) when the id has no ledger entry.
get_article_file_path(article_id, tracked) ==
    IF article_id \notin DOMAIN tracked THEN <<>>
    ELSE MdPath(article_id, tracked[article_id].clean_title)

\* os.path.exists
Exists(path) == path \in DOMAIN mdFiles

\* The orders in which Python may iterate a set of strings.
Orders(S) ==
    {s \in [1..Cardinality(S) -> S] : \A a, b \in 1..Cardinality(S) : s[a] = s[b] => a = b}

\* validate_article_file_paths, lines 49-61, for one iteration order of the set.
FilePaths(order, tracked) ==
    [k \in 1..Len(order) |-> get_article_file_path(order[k], tracked)]
ValidPaths(file_paths) == SelectSeq(file_paths, LAMBDA p : Exists(p))
MissingPaths(file_paths) == SelectSeq(file_paths, LAMBDA p : ~Exists(p))

\* total_batches, line 60
TotalBatches(n, size) == (n + size - 1) \div size

\* Mutant: missing paths are dropped and the valid ones uploaded.
Proceed_Partial(total_articles, raised, valid, missing) ==
    total_articles # 0 /\ ~raised /\ valid # <<>>

\* Lines 32-51: the batch loop is reached only with articles to upload, a
\* resolved index, no missing path and at least one valid path.
Proceed(total_articles, raised, valid, missing) ==
    total_articles # 0 /\ ~raised /\ missing = <<>> /\ valid # <<>>

\* Mutant: the index is resolved before the delta set is tested for emptiness.
ResolvesIndex_Always(total_articles) == TRUE

\* Lines 32-39: ensure_vector_store_exists is called only past the return of
\* line 34, with articles to upload.
ResolvesIndex(total_articles) == total_articles # 0

\* The orders in which validate_article_file_paths may meet the ids of the
\* set new_articles | updated_articles: every order of a set of at most MaxPerm
\* ids; of a larger set the ascending and the descending order of the ids and
\* their rotations.
\* int(article_id): the ids of the model have at most two digits.
IdValue(id) == CHOOSE n \in 0..99 : Str(n) = id
IdRank(ids, id) == Cardinality({x \in ids : IdValue(x) <= IdValue(id)})
IterationOrders(ids) ==
    IF Cardinality(ids) <= MaxPerm THEN Orders(ids)
    ELSE LET n == Cardinality(ids)
             up == [k \in 1..n |-> CHOOSE id \in ids : IdRank(ids, id) = k]
             down == [k \in 1..n |-> up[n + 1 - k]]
             rot(s, r) == [k \in 1..n |-> s[((k + r - 1) % n) + 1]]
         IN {rot(up, r) : r \in 0..(n - 1)} \cup {rot(down, r) : r \in 0..(n - 1)}

\* upload_delta_articles_in_batches, lines 22-62: the counts, index resolution
\* (ensure_vector_store_exists), path validation and the batch plan.
UploadStart ==
    /\ pc = "upload"
    /\ LET total_articles == Cardinality(new_articles) + Cardinality(updated_articles)
           all_article_ids == new_articles \cup updated_articles
           existing_id == get_vector_store_by_name(stores, VECTOR_STORE_NAME)
           resolve == ResolvesIndex(total_articles)
       IN
       \E res \in {"ok", "lookup_fail", "create_fail"},
          order \in IterationOrders(all_article_ids) :
         LET raised == \/ res = "lookup_fail"
                       \/ res = "create_fail" /\ existing_id = 0
             file_paths == FilePaths(order, tracked_metadata)
             valid == ValidPaths(file_paths)
             missing == MissingPaths(file_paths)
             go == Proceed(total_articles, raised, valid, missing)
             lookup == IF resolve
                       THEN <<Event("lookup", IF res = "lookup_fail" THEN "raised"
                                              ELSE "ok")>>
                       ELSE <<>>
             create == IF resolve /\ res # "lookup_fail" /\ existing_id = 0
                       THEN <<Event("create", IF res = "create_fail" THEN "raised"
                                              ELSE "ok")>>
                       ELSE <<>>
             ending == IF go THEN <<>>
                       ELSE IF raised THEN <<Event("upload_failed", "raised")>>
                       ELSE IF total_articles = 0
                            THEN <<Event("upload_end", "no_articles")>>
                       ELSE IF missing # <<>>
                            THEN <<Event("upload_end", "missing_files")>>
                       ELSE <<Event("upload_end", "no_valid_files")>>
         IN
         /\ (~resolve \/ existing_id # 0) => res # "create_fail"
         /\ ~resolve => res = "ok"
         /\ Fault(res # "ok")
         /\ stores' = IF resolve /\ res = "ok" /\ existing_id = 0
                      THEN Append(stores, VECTOR_STORE_NAME) ELSE stores
         /\ vector_store_id' =
              IF ~resolve \/ raised THEN 0
              ELSE IF existing_id # 0 THEN existing_id ELSE Len(stores) + 1
         /\ valid_paths' = IF total_articles # 0 /\ ~raised THEN valid ELSE <<>>
         /\ missing_paths' = IF total_articles # 0 /\ ~raised THEN missing ELSE <<>>
         /\ total_batches' = IF go THEN TotalBatches(Len(valid), batch_size) ELSE 0
         /\ events' = events \o lookup \o create \o ending
         /\ IF go
            THEN /\ pc' = "batch"
                 /\ UNCHANGED runs
            ELSE EndRun
    /\ batch_num' = 0
    /\ total_files_embedded' = 0 /\ total_chunks_embedded' = 0
    /\ successful_batches' = 0 /\ failed_batches' = 0
    /\ batches' = <<>>
    /\ UNCHANGED <<remote, ledgerFile, fsVars, scrapeVars, calls, batch_size, runHist,
                   indexed, resubmitted, prevClean, remoteChanged, fetchVars,
                   file_streams, persistedBefore, failedBefore>>

Min(a, b) == IF a < b THEN a ELSE b

\* Mutant: the slice loses its last path.
BatchPaths_Short(paths, num, size) ==
    SubSeq(paths, num + 1, Min(num + size, Len(paths)) - (IF size > 1 THEN 1 ELSE 0))

\* valid_paths[batch_num:batch_num + batch_size]
BatchPaths(paths, num, size) == SubSeq(paths, num + 1, Min(num + size, Len(paths)))

\* Mutant: a batch that raises ends the loop.
NextBatchNum_Abort(num, size, ok, n) == IF ok THEN num + size ELSE n

\* The loop of line 65 goes on to the next batch whether or not this one raised.
NextBatchNum(num, size, ok, n) == num + size

\* The versions a batch carries: the id of each path with the hash of the
\* body its file was written from.
Versions(batch_paths) ==
    {<<batch_paths[k][2], mdFiles[batch_paths[k]].of>> : k \in 1..Len(batch_paths)}

\* Mutant: the handles are closed on the success path only.
Release_OnSuccess(streams, ok) == IF ok THEN <<>> ELSE streams

\* upload_files_to_vector_store_batch, lines 153-165: the handles still open
\* once every stream of file_streams was closed, on return and on raise.
Release(streams, ok) == <<>>

\* One iteration of the batch loop, lines 65-101, with the whole of
\* upload_files_to_vector_store_batch: the files of the batch are opened one
\* after the other (the open of file j may raise), submitted and polled, and
\* the handles are released; completed is the count the service reports.
UploadBatch ==
    /\ pc = "batch"
    /\ batch_num < Len(valid_paths)
    /\ LET batch_paths == BatchPaths(valid_paths, batch_num, batch_size)
           current_files == Len(batch_paths)
           gone == \E k \in 1..current_files : ~Exists(batch_paths[k])
           first_gone == CHOOSE k \in 1..current_files :
                            /\ ~Exists(batch_paths[k])
                            /\ \A m \in 1..(k - 1) : Exists(batch_paths[m])
       IN
       \E out \in {"ok", "open", "submit"}, j \in 1..current_files,
          completed \in 0..current_files :
         LET ok == out = "ok" /\ ~gone
             opened == IF gone THEN first_gone - 1
                       ELSE IF out = "open" THEN j - 1
                       ELSE current_files
             streams == SubSeq(batch_paths, 1, opened)
         IN
         /\ gone => out = "ok"
         /\ out # "open" => j = 1
         /\ ~ok => completed = current_files
         /\ Fault(out # "ok" \/ completed < current_files)
         /\ total_files_embedded' =
              IF ok THEN total_files_embedded + current_files ELSE total_files_embedded
         /\ total_chunks_embedded' =
              IF ok THEN total_chunks_embedded + completed ELSE total_chunks_embedded
         /\ successful_batches' = IF ok THEN successful_batches + 1 ELSE successful_batches
         /\ failed_batches' = IF ok THEN failed_batches ELSE failed_batches + 1
         /\ batches' = Append(batches,
              [paths |-> batch_paths, ok |-> ok,
               submitted |-> out # "open" /\ ~gone,
               opened |-> opened,
               completed |-> IF ok THEN completed ELSE 0])
         /\ file_streams' = Release(streams, ok)
         /\ indexed' = IF ok THEN indexed \cup Versions(batch_paths) ELSE indexed
         /\ resubmitted' =
              (resubmitted \/ (ok /\ Versions(batch_paths) \cap indexed # {}))
         /\ batch_num' = NextBatchNum(batch_num, batch_size, ok, Len(valid_paths))
    /\ UNCHANGED <<remote, ledgerFile, fsVars, stores, pc, runs, scrapeVars, calls, batch_size,
                   vector_store_id, valid_paths, missing_paths, total_batches, runHist,
                   prevClean, remoteChanged, fetchVars, events, persistedBefore, failedBefore>>

\* Lines 103-116: the loop is over, the summary is logged.
UploadFinish ==
    /\ pc = "batch"
    /\ batch_num >= Len(valid_paths)
    /\ EndRun
    /\ events' = Append(events, Event("upload_summary", "counts"))
    /\ UNCHANGED <<remote, ledgerFile, fsVars, stores, budget, scrapeVars, calls, batch_size,
                   uploadVars, runHist, indexed, resubmitted, prevClean, remoteChanged,
                   fetchVars, file_streams, persistedBefore, failedBefore>>

\* The ids of which this run wrote both the content file and the sidecar.
PersistedThisRun ==
    {Str(articles[k].id) :
        k \in {m \in 1..Len(outcomes) :
                  outcomes[m].class \in {"new", "updated"} /\ outcomes[m].io = "ok"}}

\* The documents that save_article_as_markdown found changed and could not
\* write, and that the run did not persist at another place of the sequence.
FailedThisRun ==
    {[id |-> Str(articles[k].id), body |-> articles[k].body] :
        k \in {m \in 1..Len(outcomes) :
                  /\ outcomes[m].class \in {"new", "updated"}
                  /\ outcomes[m].io # "ok"
                  /\ ~\E n \in 1..Len(outcomes) :
                         /\ outcomes[n].class \in {"new", "updated"}
                         /\ outcomes[n].io = "ok"
                         /\ articles[n].id = articles[m].id
                         /\ articles[n].body = articles[m].body}}

\* The process exits: only the disk, the source and the index service remain.
Exit ==
    /\ pc = "done"
    /\ pc' = "idle"
    /\ tracked_metadata' = EmptyDict
    /\ articles' = <<>>
    /\ i' = 1
    /\ new_count' = 0 /\ updated_count' = 0 /\ skipped_count' = 0
    /\ new_articles' = {} /\ updated_articles' = {}
    /\ vector_store_id' = 0
    /\ valid_paths' = <<>> /\ missing_paths' = <<>>
    /\ batch_num' = 0 /\ total_batches' = 0
    /\ total_files_embedded' = 0 /\ total_chunks_embedded' = 0
    /\ successful_batches' = 0 /\ failed_batches' = 0
    /\ batches' = <<>>
    /\ snapshot' = EmptyDict
    /\ outcomes' = <<>>
    /\ cleanScrape' = TRUE
    /\ prevClean' = cleanScrape
    /\ remoteChanged' = FALSE
    /\ events' = <<>>
    /\ persistedBefore' = persistedBefore \cup PersistedThisRun
    /\ failedBefore' = FailedThisRun
    /\ UNCHANGED <<remote, ledgerFile, fsVars, stores, runs, budget, calls, batch_size,
                   indexed, resubmitted, fetchVars, file_streams>>

\* ----------------------------------------------------------- environment
\* The source collection changes between two runs: one document gets another body.
RemoteChange ==
    /\ pc = "idle"
    /\ runs < MaxRuns
    /\ ~remoteChanged
    /\ \E k \in {j \in 1..Len(remote) : remote[j].id # None} :
         \E b \in Bodies \ {remote[k].body} :
            remote' = [remote EXCEPT ![k].body = b]
    /\ remoteChanged' = TRUE
    /\ UNCHANGED <<ledgerFile, fsVars, stores, pc, runs, budget, scrapeVars, calls, batch_size,
                   uploadVars, runHist, indexed, resubmitted, prevClean, fetchVars,
                   file_streams, events, persistedBefore, failedBefore>>

\* Another process deletes a content file between the two stages.
ExternalDelete ==
    /\ pc = "upload"
    /\ Fault(TRUE)
    /\ \E p \in DOMAIN mdFiles :
         mdFiles' = [q \in (DOMAIN mdFiles) \ {p} |-> mdFiles[q]]
    /\ UNCHANGED <<remote, ledgerFile, dirs, sidecars, stores, pc, runs, scrapeVars,
                   calls, batch_size, uploadVars, runHist, indexed, resubmitted, prevClean,
                   remoteChanged, fetchVars, file_streams, events, persistedBefore, failedBefore>>

Next ==
    \/ MainStart
    \/ ProcessArticle
    \/ MainFinish
    \/ UploadStart
    \/ UploadBatch
    \/ UploadFinish
    \/ Exit
    \/ RemoteChange
    \/ ExternalDelete

Spec == Init /\ [][Next]_vars

\* ------------------------------------------- the upload stage on its own
\* upload_delta_articles_in_batches(categorized_articles, tracked_metadata,
\* batch_size) called with a delta set of n ids, the first a of them new, every
\* one persisted, except that one id may lack its file or its ledger entry.
UploadInput(n, a, bad, kind) ==
    LET ids == {Str(k) : k \in 1..n}
        title == CHOOSE t \in Titles : TRUE
        entry == [clean_title |-> clean_title_of(title),
                  content_hash |-> calculate_content_hash(1)]
        article(k) == [id |-> k, title |-> title, body |-> 1]
        filed == {k \in 1..n : ~(k = bad /\ kind = "file")}
        entered == {k \in 1..n : ~(k = bad /\ kind = "entry")}
    IN
    /\ new_articles = {Str(k) : k \in 1..a}
    /\ updated_articles = {Str(k) : k \in (a + 1)..n}
    /\ tracked_metadata = [x \in {Str(k) : k \in entered} |-> entry]
    /\ mdFiles = [p \in {MdPath(Str(k), entry.clean_title) : k \in filed} |->
                    MdFile(convert_article_to_markdown(
                               [id |-> 0, title |-> title, body |-> 1], TRUE),
                           entry.content_hash)]
    /\ dirs = {Str(k) : k \in 1..n}
    /\ sidecars = [x \in {Str(k) : k \in 1..n} |->
                     [kind |-> "metadata", id |-> 0, title |-> title,
                      content_hash |-> entry.content_hash]]

InitUpload ==
    /\ \E n \in 0..MaxPaths :
         \E a \in 0..n, bad \in 0..n, kind \in {"file", "entry"} :
            /\ bad = 0 => kind = "file"
            /\ UploadInput(n, a, bad, kind)
    /\ batch_size \in 1..MaxBatch
    /\ stores \in {<<>>, <<VECTOR_STORE_NAME>>}
    /\ remote = <<>>
    /\ ledgerFile = LedgerAbsent
    /\ calls = <<>>
    /\ pc = "upload"
    /\ runs = 0
    /\ budget = MaxFaults
    /\ articles = <<>>
    /\ i = 1
    /\ new_count = 0 /\ updated_count = 0 /\ skipped_count = 0
    /\ UploadIdle
    /\ snapshot = EmptyDict
    /\ outcomes = <<>>
    /\ indexed = {}
    /\ resubmitted = FALSE
    /\ cleanScrape = TRUE
    /\ prevClean = FALSE
    /\ remoteChanged = FALSE
    /\ FetchIdle
    /\ file_streams = <<>>
    /\ events = <<>>
    /\ persistedBefore = {}
    /\ failedBefore = {}

NextUpload ==
    \/ UploadStart
    \/ UploadBatch
    \/ UploadFinish

SpecUpload == InitUpload /\ [][NextUpload]_vars

\* ------------------------------- concurrent calls of index resolution
Callers == 1..MaxCallers

\* Each caller is at "lookup", at "create" (its lookup returned None),
\* "returned" (ret is the id it returned) or "raised".
InitEnsure ==
    /\ calls = [c \in Callers |-> [at |-> "lookup", ret |-> 0]]
    /\ stores \in {<<>>, <<"other">>, <<VECTOR_STORE_NAME>>,
                    <<"other", VECTOR_STORE_NAME>>}
    /\ budget = MaxFaults
    /\ pc = "ensure"
    /\ remote = <<>>
    /\ ledgerFile = LedgerAbsent
    /\ dirs = {} /\ mdFiles = EmptyDict /\ sidecars = EmptyDict
    /\ runs = 0
    /\ tracked_metadata = EmptyDict
    /\ articles = <<>>
    /\ i = 1
    /\ new_count = 0 /\ updated_count = 0 /\ skipped_count = 0
    /\ new_articles = {} /\ updated_articles = {}
    /\ batch_size = BATCH_SIZE
    /\ UploadIdle
    /\ snapshot = EmptyDict
    /\ outcomes = <<>>
    /\ indexed = {}
    /\ resubmitted = FALSE
    /\ cleanScrape = TRUE
    /\ prevClean = FALSE
    /\ remoteChanged = FALSE
    /\ FetchIdle
    /\ file_streams = <<>>
    /\ events = <<>>
    /\ persistedBefore = {}
    /\ failedBefore = {}

ensureFrame ==
    UNCHANGED <<remote, ledgerFile, fsVars, pc, runs, scrapeVars, batch_size,
                uploadVars, histVars, fetchVars, file_streams, events, persistedBefore, failedBefore>>

\* ensure_vector_store_exists, lines 83-86: the lookup and its test.
EnsureLookup(c) ==
    /\ pc = "ensure"
    /\ calls[c].at = "lookup"
    /\ \E lookup_ok \in BOOLEAN :
         LET existing_id == get_vector_store_by_name(stores, VECTOR_STORE_NAME)
         IN
         /\ Fault(~lookup_ok)
         /\ calls' = [calls EXCEPT ![c] =
                IF ~lookup_ok THEN [at |-> "raised", ret |-> 0]
                ELSE IF existing_id # 0 THEN [at |-> "returned", ret |-> existing_id]
                ELSE [at |-> "create", ret |-> 0]]
    /\ UNCHANGED stores
    /\ ensureFrame

\* ensure_vector_store_exists, lines 88-91: create_vector_store and return.
EnsureCreate(c) ==
    /\ pc = "ensure"
    /\ calls[c].at = "create"
    /\ \E create_ok \in BOOLEAN :
         /\ Fault(~create_ok)
         /\ stores' = IF create_ok THEN Append(stores, VECTOR_STORE_NAME) ELSE stores
         /\ calls' = [calls EXCEPT ![c] =
                IF create_ok THEN [at |-> "returned", ret |-> Len(stores) + 1]
                ELSE [at |-> "raised", ret |-> 0]]
    /\ ensureFrame

NextEnsure == \E c \in Callers : EnsureLookup(c) \/ EnsureCreate(c)

SpecEnsure == InitEnsure /\ [][NextEnsure]_vars

\* ------------------------------------------------ fetch_articles on its own
TheTitle == CHOOSE t \in Titles : TRUE

\* A page of size documents, the first of which is document number first of
\* the collection; the document number n has id n.
PageOf(first, size) ==
    [k \in 1..size |-> [id |-> first + k - 1, title |-> TheTitle, body |-> 1]]

\* The pages of the given sizes, as the source serves them.
RECURSIVE Paged(_, _)
Paged(sizes, first) ==
    IF sizes = <<>> THEN <<>>
    ELSE <<PageOf(first, Head(sizes))>> \o Paged(Tail(sizes), first + Head(sizes))

\* The source serves at least one page, of at most per_page documents each.
Sources ==
    {Paged(sizes, 1) : sizes \in UNION {[1..n -> 0..per_page] : n \in 1..MaxPages}}

\* data.get('next_page') of page k: the cursor of the following page, None
\* (here 0) on the last page.
next_page(pages, k) == IF k < Len(pages) THEN k + 1 ELSE 0

\* The test of line 51.
PauseDue(count) == count >= PAUSE_EVERY /\ count % PAUSE_EVERY = 0

\* Mutant: the failure of a page is raised to the caller.
OnPageFailure_Raise(acc) == [raised |-> TRUE, articles |-> <<>>]

\* Lines 63-68: a failed request or a failed parse is logged and ends the
\* loop; what was accumulated is returned.
OnPageFailure(acc) == [raised |-> FALSE, articles |-> acc]

\* main has created the content root and loaded an empty ledger (lines
\* 156-162) and calls fetch_articles.
FetchStart ==
    /\ url = 1
    /\ page_count = 0 /\ article_count = 0 /\ pauses = 0
    /\ articles = <<>>
    /\ pc = "fetch"
    /\ remote = <<>>
    /\ dirs = {} /\ mdFiles = EmptyDict /\ sidecars = EmptyDict
    /\ calls = <<>>
    /\ runs = 0
    /\ tracked_metadata = EmptyDict
    /\ i = 1
    /\ new_count = 0 /\ updated_count = 0 /\ skipped_count = 0
    /\ new_articles = {} /\ updated_articles = {}
    /\ batch_size = BATCH_SIZE
    /\ UploadIdle
    /\ snapshot = EmptyDict
    /\ outcomes = <<>>
    /\ indexed = {}
    /\ resubmitted = FALSE
    /\ cleanScrape = TRUE
    /\ prevClean = FALSE
    /\ remoteChanged = FALSE
    /\ file_streams = <<>>
    /\ events = <<Event("ledger_read", ledgerFile.state)>>
    /\ persistedBefore = {}
    /\ failedBefore = {}

InitFetch ==
    /\ source \in Sources
    /\ ledgerFile = LedgerAbsent
    /\ stores = <<>>
    /\ budget = MaxFaults
    /\ FetchStart

\* One iteration of the loop of fetch_articles, lines 31-68: the page at the
\* cursor is requested and parsed, its documents are appended, the pause is
\* taken when it is due, and the cursor moves on.
FetchPage ==
    /\ pc = "fetch"
    /\ url # 0
    /\ page_count' = page_count + 1
    /\ \E fails \in BOOLEAN :
         /\ Fault(fails)
         /\ IF fails
            THEN LET result == OnPageFailure(articles)
                 IN /\ articles' = result.articles
                    /\ pc' = IF result.raised THEN "upload" ELSE "fetched"
                    /\ UNCHANGED <<url, article_count, pauses>>
            ELSE LET page_articles == source[url]
                     count == article_count + Len(page_articles)
                 IN /\ articles' = articles \o page_articles
                    /\ article_count' = count
                    /\ pauses' = IF PauseDue(count) THEN pauses + 1 ELSE pauses
                    /\ url' = next_page(source, url)
                    /\ pc' = IF url' = 0 THEN "fetched" ELSE "fetch"
    /\ UNCHANGED <<remote, ledgerFile, fsVars, stores, calls, runs, tracked_metadata, i,
                   new_count, updated_count, skipped_count, new_articles,
                   updated_articles, batch_size, uploadVars, histVars, source,
                   file_streams, events, persistedBefore, failedBefore>>

\* fetch_articles returns (lines 70-79) and main goes on to its loop (lines
\* 166-175). The cursor is still set when a page failed.
FetchReturn ==
    /\ pc = "fetched"
    /\ pc' = "process"
    /\ cleanScrape' = (url = 0)
    /\ UNCHANGED <<remote, ledgerFile, fsVars, stores, calls, runs, budget, scrapeVars,
                   batch_size, uploadVars, snapshot, outcomes, indexed, resubmitted,
                   prevClean, remoteChanged, fetchVars, file_streams, events,
                   persistedBefore, failedBefore>>

NextFetch ==
    \/ FetchPage
    \/ FetchReturn

SpecFetch == InitFetch /\ [][NextFetch]_vars

\* ------------------------------------------------ one run, page by page
\* One run of the pipeline from an empty ledger with no failure: the source
\* serves a page of 10 and a page of 2 documents.
InitScenario ==
    /\ source = Paged(<<10, 2>>, 1)
    /\ ledgerFile \in {LedgerAbsent, [state |-> "ok", data |-> EmptyDict]}
    /\ stores \in {<<>>, <<"other">>, <<VECTOR_STORE_NAME>>,
                    <<"other", VECTOR_STORE_NAME>>}
    /\ budget = 0
    /\ FetchStart

NextScenario ==
    \/ FetchPage
    \/ FetchReturn
    \/ ProcessArticle
    \/ MainFinish
    \/ UploadStart
    \/ UploadBatch
    \/ UploadFinish

SpecScenario == InitScenario /\ [][NextScenario]_vars

\* ------------------------------------------- the slug of a title on its own
\* The characters of a title: a word character, a punctuation mark, a blank
\* and the separator itself.
Chars == {"a", "!", " ", "-"}
SlugTitles == SeqsUpTo(Chars, MaxTitle)

\* main has loaded an empty ledger and fetched one document, of any title, or
\* two of the same id, the second with that title or another and with any body.
InitSlug ==
    /\ \E title \in SlugTitles :
         LET first == [id |-> 1, title |-> title, body |-> 1]
         IN \/ articles = <<first>>
            \/ \E again \in {title, <<"a">>}, body \in Bodies :
                  articles = <<first, [id |-> 1, title |-> again, body |-> body]>>
    /\ pc = "process"
    /\ remote = <<>>
    /\ ledgerFile = LedgerAbsent
    /\ dirs = {} /\ mdFiles = EmptyDict /\ sidecars = EmptyDict
    /\ stores = <<>>
    /\ calls = <<>>
    /\ runs = 0
    /\ budget = MaxFaults
    /\ tracked_metadata = EmptyDict
    /\ i = 1
    /\ new_count = 0 /\ updated_count = 0 /\ skipped_count = 0
    /\ new_articles = {} /\ updated_articles = {}
    /\ batch_size = BATCH_SIZE
    /\ UploadIdle
    /\ snapshot = EmptyDict
    /\ outcomes = <<>>
    /\ indexed = {}
    /\ resubmitted = FALSE
    /\ cleanScrape = TRUE
    /\ prevClean = FALSE
    /\ remoteChanged = FALSE
    /\ FetchIdle
    /\ file_streams = <<>>
    /\ events = <<Event("ledger_read", "absent")>>
    /\ persistedBefore = {}
    /\ failedBefore = {}

NextSlug ==
    \/ ProcessArticle
    \/ MainFinish
    \/ UploadStart
    \/ UploadBatch
    \/ UploadFinish

SpecSlug == InitSlug /\ [][NextSlug]_vars

\* ------------------------------------- the pipeline after an earlier run
\* The failures of one behaviour when a run may lose a write and its ledger.
RetryFaults == MaxFaults + 1

\* An earlier run without failure fetched id 1 twice, with body 1 and then
\* with body 2, persisted and indexed it and exited: the content file, the
\* sidecar and the ledger are those of body 2. The source still serves both.
InitRetry ==
    LET title == CHOOSE t \in Titles : TRUE
        first == [id |-> 1, title |-> title, body |-> 1]
        last == [id |-> 1, title |-> title, body |-> 2]
        content_hash == calculate_content_hash(content_of(last))
        clean_title == clean_title_of(title)
    IN
    /\ remote = <<first, last>>
    /\ ledgerFile = [state |-> "ok",
                     data |-> Put(EmptyDict, "1", [clean_title |-> clean_title,
                                                   content_hash |-> content_hash])]
    /\ dirs = {"1"}
    /\ mdFiles = Put(EmptyDict, MdPath("1", clean_title),
                     MdFile(convert_article_to_markdown(last, TRUE), content_hash))
    /\ sidecars = Put(EmptyDict, "1", [kind |-> "metadata", id |-> 1, title |-> title,
                                       content_hash |-> content_hash])
    /\ stores = <<VECTOR_STORE_NAME>>
    /\ calls = <<>>
    /\ pc = "idle"
    /\ runs = 0
    /\ budget = RetryFaults
    /\ tracked_metadata = EmptyDict
    /\ articles = <<>>
    /\ i = 1
    /\ new_count = 0 /\ updated_count = 0 /\ skipped_count = 0
    /\ new_articles = {} /\ updated_articles = {}
    /\ batch_size = BATCH_SIZE
    /\ UploadIdle
    /\ snapshot = EmptyDict
    /\ outcomes = <<>>
    /\ indexed = {<<"1", content_hash>>}
    /\ resubmitted = FALSE
    /\ cleanScrape = TRUE
    /\ prevClean = TRUE
    /\ remoteChanged = FALSE
    /\ FetchIdle
    /\ file_streams = <<>>
    /\ events = <<>>
    /\ persistedBefore = {"1"}
    /\ failedBefore = {}

SpecRetry == InitRetry /\ [][Next]_vars

\* ================================================================ claims
\* What the claims speak of, read off the state.
ProcessStep == pc = "process" /\ i <= Len(articles)
CurId == Str(articles[i].id)
CurHash == calculate_content_hash(articles[i].body)
CurPath == MdPath(CurId, clean_title_of(articles[i].title))
DeltaSet == new_articles \cup updated_articles
LedgerFrame ==
    /\ tracked_metadata' = tracked_metadata
    /\ new_articles' = new_articles
    /\ updated_articles' = updated_articles
\* The ids of the paths of the k-th batch of this run.
PathIds(k) == {batches[k].paths[j][2] : j \in 1..Len(batches[k].paths)}

\* C1: at the end of every run, every version recorded in the persisted ledger
\* has been submitted in a batch that succeeded, and no version already indexed
\* was submitted again.
C1_NoMissNoDuplicate ==
    pc = "done" =>
        /\ \A id \in DOMAIN ledgerFile.data :
              <<id, ledgerFile.data[id].content_hash>> \in indexed
        /\ ~resubmitted

\* C2: processing a document changes a ledger entry only for its own id and
\* only with the content file and the sidecar of that version written; when a
\* write fails the ledger and the delta set stay as they were.
C2_LedgerOnlyAfterWrites ==
    [][ProcessStep =>
        /\ \A id \in DOMAIN tracked_metadata' :
              (id \notin DOMAIN tracked_metadata
                  \/ tracked_metadata'[id] # tracked_metadata[id])
              => /\ id = CurId
                 /\ tracked_metadata'[id].content_hash = CurHash
                 /\ CurPath \in DOMAIN mdFiles'
                 /\ mdFiles'[CurPath].of = CurHash
                 /\ mdFiles'[CurPath].content.kind \in {"markdown", "failed"}
                 /\ CurId \in DOMAIN sidecars'
                 /\ sidecars'[CurId].kind = "metadata"
                 /\ sidecars'[CurId].content_hash = CurHash
        /\ outcomes'[i].io # "ok" => LedgerFrame
      ]_vars

\* A changed (updated) document whose sidecar write failed after its content
\* file was written.
C2_Witness ==
    \E k \in 1..Len(outcomes) :
        outcomes[k].class = "updated" /\ outcomes[k].io = "meta_write"

C4_ClassificationRule ==
    /\ [][ProcessStep =>
            /\ outcomes'[i].class =
                 CASE articles[i].id = None -> "noid"
                   [] articles[i].id # None /\ CurId \notin DOMAIN tracked_metadata
                        -> "new"
                   [] articles[i].id # None /\ CurId \in DOMAIN tracked_metadata
                        /\ tracked_metadata[CurId].content_hash # CurHash
                        -> "updated"
                   [] OTHER -> "skipped"
            /\ articles[i].id = None =>
                 (LedgerFrame /\ ~outcomes'[i].saved /\ outcomes'[i].status = "skipped"
                  /\ UNCHANGED fsVars)
         ]_vars
    /\ [](Str(None) \notin (DOMAIN tracked_metadata) \cup (DOMAIN ledgerFile.data)
                              \cup DeltaSet)

\* A run that met a document without id and an updated one.
C4_Witness ==
    /\ Len(outcomes) = 2
    /\ outcomes[1].class = "noid"
    /\ outcomes[2].class = "updated"

\* No id occurs in the collection with two different bodies.
NoConflict(docs) ==
    \A j, k \in 1..Len(docs) :
        (docs[j].id # None /\ docs[j].id = docs[k].id) => docs[j].body = docs[k].body

SecondRunDone == pc = "done" /\ runs >= 2 /\ ~remoteChanged
NothingToDo ==
    /\ new_articles = {} /\ updated_articles = {}
    /\ batches = <<>> /\ total_files_embedded = 0

SnapshotClass(article) ==
    CASE article.id = None -> "noid"
      [] article.id # None /\ Str(article.id) \notin DOMAIN snapshot -> "new"
      [] article.id # None /\ Str(article.id) \in DOMAIN snapshot
           /\ snapshot[Str(article.id)].content_hash
                # calculate_content_hash(article.body) -> "updated"
      [] OTHER -> "skipped"

\* C9 as stated: every document of a run is classified as the ledger snapshot
\* of the run start classifies it, whatever was processed before it.
C9_Original ==
    \A k \in 1..Len(outcomes) : outcomes[k].class = SnapshotClass(articles[k])

\* C9 as amended: a document is classified as the run-start snapshot classifies
\* it unless a document with the same id was persisted earlier in the same run.
C9_SnapshotUnlessSameId ==
    \A k \in 1..Len(outcomes) :
        (\A j \in 1..(k - 1) : ~(outcomes[j].saved /\ articles[j].id = articles[k].id))
            => outcomes[k].class = SnapshotClass(articles[k])

\* Two documents of different ids, the first persisted, the second updated.
C9_Witness ==
    /\ Len(outcomes) = 2
    /\ outcomes[1].saved
    /\ articles[2].id # None /\ articles[1].id # articles[2].id
    /\ outcomes[2].class = "updated"

\* The upload stage passed index resolution and path validation.
BatchLoopReached == vector_store_id # 0 /\ valid_paths # <<>> /\ missing_paths = <<>>
Ceil(n, b) == CHOOSE q \in 0..n : q * b >= n /\ (q - 1) * b < n
RECURSIVE Flatten(_)
Flatten(bs) == IF bs = <<>> THEN <<>> ELSE Head(bs).paths \o Flatten(Tail(bs))
Count(ok) == Cardinality({k \in 1..Len(batches) : batches[k].ok = ok})
MissingIds ==
    {id \in DeltaSet : ~Exists(get_article_file_path(id, tracked_metadata))}

\* C6: a batch is attempted only with the index resolved and every id of the
\* delta set resolved to an existing file; with resolution failed or a file
\* missing the stage ends with no batch.
C6_FailClosed ==
    /\ batches # <<>> =>
          /\ vector_store_id \in 1..Len(stores)
          /\ stores[vector_store_id] = VECTOR_STORE_NAME
          /\ MissingIds = {}
    /\ (pc \in {"batch", "done"} /\ (vector_store_id = 0 \/ MissingIds # {})) =>
          /\ pc = "done"
          /\ batches = <<>>
          /\ successful_batches = 0 /\ failed_batches = 0
          /\ total_files_embedded = 0

\* One file missing among three expected, the index resolved: no batch.
C6_Witness ==
    /\ pc = "done"
    /\ Cardinality(DeltaSet) = 3
    /\ Cardinality(MissingIds) = 1
    /\ vector_store_id # 0
    /\ Len(valid_paths) = 2
    /\ batches = <<>>

\* C7: when the batch loop ends, every planned batch was attempted, whichever
\* of them raised, and successful_batches counts the ones that did not raise.
C7_Isolation ==
    (pc = "done" /\ BatchLoopReached) =>
        /\ Len(batches) = Ceil(Len(valid_paths), batch_size)
        /\ \A k \in 1..Len(batches) : batches[k].paths # <<>>
        /\ successful_batches = Count(TRUE)
        /\ failed_batches = Count(FALSE)

\* Batch 2 of 3 raised, batches 1 and 3 were submitted and succeeded.
C7_Witness ==
    /\ pc = "done"
    /\ Len(batches) = 3
    /\ batches[1].ok /\ ~batches[2].ok /\ batches[3].ok
    /\ successful_batches = 2 /\ failed_batches = 1

\* C8: N validated paths and batch size B give ceil(N/B) batches, each of B
\* paths but the last, which has 1..B, and the batches in order make up the
\* validated-path list.
C8_Partition ==
    (pc = "done" /\ BatchLoopReached) =>
        /\ batch_size >= 1
        /\ Len(batches) = Ceil(Len(valid_paths), batch_size)
        /\ total_batches = Ceil(Len(valid_paths), batch_size)
        /\ \A k \in 1..(Len(batches) - 1) : Len(batches[k].paths) = batch_size
        /\ Len(batches[Len(batches)].paths) \in 1..batch_size
        /\ Flatten(batches) = valid_paths

\* Three paths in batches of two: a full batch and a last batch of one.
C8_Witness ==
    /\ pc = "done"
    /\ batch_size = 2
    /\ Len(valid_paths) = 3
    /\ Len(batches) = 2
    /\ Len(batches[1].paths) = 2 /\ Len(batches[2].paths) = 1

\* C10: whatever calls of ensure_vector_store_exists ran, one after the other
\* or at once, at most one store has the name and all calls returned its id.
C10_OneIndex ==
    /\ Cardinality({k \in 1..Len(stores) : stores[k] = VECTOR_STORE_NAME}) <= 1
    /\ \A c, d \in DOMAIN calls :
          (calls[c].at = "returned" /\ calls[d].at = "returned")
              => calls[c].ret = calls[d].ret

\* The ids whose content file and sidecar have both been written at least once.
Persisted == persistedBefore \cup PersistedThisRun
\* The run loaded its ledger, and what it loaded had an entry for exactly the
\* documents persisted before the run.
StartedConsistent ==
    /\ events # <<>>
    /\ events[1].op = "ledger_read"
    /\ DOMAIN snapshot = persistedBefore
LedgerWritten ==
    \E k \in 1..Len(events) : events[k] = Event("ledger_write", "ok")

\* C11: in every state of a run that started from a consistent ledger, the
\* ledger of the run has an entry for an id if and only if the content file and
\* the sidecar of that id have both been written at least once; so has the
\* ledger file once the run has saved it.
C11_EntryIffPersisted ==
    StartedConsistent =>
        /\ DOMAIN tracked_metadata = Persisted
        /\ LedgerWritten => DOMAIN ledgerFile.data = Persisted

\* One document persisted and entered; the content file of another written,
\* its sidecar not: it has no entry.
C11_Witness ==
    /\ pc = "done"
    /\ StartedConsistent
    /\ Len(outcomes) = 2
    /\ outcomes[1].saved /\ outcomes[2].io = "meta_write"
    /\ articles[1].id # articles[2].id
    /\ DOMAIN tracked_metadata = {Str(articles[1].id)}
    /\ MdPath(Str(articles[2].id), clean_title_of(articles[2].title)) \in DOMAIN mdFiles

\* The ids in the order in which the first k documents of the run entered the
\* sets new_articles and updated_articles.
RECURSIVE InsertionOrder(_)
InsertionOrder(k) ==
    IF k = 0 THEN <<>>
    ELSE LET before == InsertionOrder(k - 1)
             id == Str(articles[k].id)
         IN IF outcomes[k].saved /\ \A m \in 1..Len(before) : before[m] # id
            THEN Append(before, id)
            ELSE before

\* C12: the validated paths are batched in the order in which their documents
\* were classified new or updated during the run.
C12_InsertionOrder ==
    (pc \in {"batch", "done"} /\ BatchLoopReached) =>
        [k \in 1..Len(valid_paths) |-> valid_paths[k][2]] = InsertionOrder(Len(outcomes))

\* C13: once the number of documents retrieved has reached 20 * k, at least k
\* pauses have been taken, whatever the sizes of the pages.
C13_PauseEvery20 == pauses >= article_count \div PAUSE_EVERY

\* The documents of pages 1..k, in page order.
RECURSIVE PagesUpTo(_, _)
PagesUpTo(pages, k) == IF k = 0 THEN <<>> ELSE PagesUpTo(pages, k - 1) \o pages[k]

\* C14: fetch_articles raises nothing to main; when the request of page k
\* failed (the cursor is still at k) it has returned the documents of pages
\* 1..k-1 in order, and when none failed it has requested every page and
\* returned the documents of all of them in order.
C14_PartialOnFailure ==
    /\ pc \in {"fetch", "fetched", "process"}
    /\ pc \in {"fetched", "process"} =>
          IF url # 0
          THEN /\ page_count = url
               /\ articles = PagesUpTo(source, url - 1)
          ELSE /\ page_count = Len(source)
               /\ articles = PagesUpTo(source, Len(source))

\* The request of page 2 of 3 failed: the documents of page 1 are returned.
C14_Witness ==
    /\ pc = "process"
    /\ Len(source) = 3
    /\ url = 2
    /\ Len(source[1]) = per_page /\ Len(source[2]) > 0
    /\ articles = source[1]

Logged(op) == \E k \in 1..Len(events) : events[k].op = op

\* C15: a run that is over has logged its summary: the counts of the scrape
\* stage once the content root exists, and the files, chunks and batches of the
\* upload stage whenever there was something to upload, also when index
\* resolution failed, a file was missing or batches failed.
C15_AlwaysSummary ==
    pc = "done" =>
        /\ Logged("ledger_read") => Logged("scrape_summary")
        /\ DeltaSet # {} => Logged("upload_summary")

Times(op) == Cardinality({k \in 1..Len(events) : events[k].op = op})

\* C16: in a run the ledger file is loaded once, before any document is
\* processed, and written at most once, after the last document; no step of
\* the document loop touches the file, which changes only in the step that
\* saves it.
C16_LedgerOncePerRun ==
    /\ [](/\ Times("ledger_read") <= 1
          /\ Times("ledger_write") <= 1
          /\ (pc = "process" \/ outcomes # <<>> \/ Logged("scrape_summary"))
                => (Times("ledger_read") = 1 /\ events[1].op = "ledger_read")
          /\ Logged("ledger_write") => (pc # "process" /\ Len(outcomes) = Len(articles)))
    /\ [][/\ ProcessStep => ledgerFile' = ledgerFile
          /\ ledgerFile' # ledgerFile =>
                /\ pc = "process" /\ i > Len(articles)
                /\ Times("ledger_write") = 0
                /\ events' = events \o <<Event("ledger_write", events'[Len(events) + 1].arg),
                                         Event("scrape_summary", "counts")>>
         ]_vars

\* In the middle of the loop of a later run: a document was updated in the
\* in-memory ledger, the ledger file is as it was loaded.
C16_Witness ==
    /\ pc = "process"
    /\ i = 2 /\ Len(articles) = 2
    /\ outcomes[1].class = "updated" /\ outcomes[1].saved
    /\ ledgerFile.state = "ok"
    /\ ledgerFile.data = snapshot
    /\ tracked_metadata # snapshot

\* C17: once upload_files_to_vector_store_batch has returned or raised, no
\* handle it opened is open: after a batch that succeeded, after one whose
\* submission raised with every file open, and after one in which the open of
\* a file raised with the files before it open.
C17_HandlesReleased ==
    /\ file_streams = <<>>
    /\ \A k \in 1..Len(batches) :
          /\ batches[k].opened \in 0..Len(batches[k].paths)
          /\ batches[k].submitted => batches[k].opened = Len(batches[k].paths)

\* The open of the second file of a batch of two raised, the first was open.
C17_Witness ==
    \E k \in 1..Len(batches) :
        /\ Len(batches[k].paths) = 2
        /\ batches[k].opened = 1
        /\ ~batches[k].ok /\ ~batches[k].submitted
        /\ file_streams = <<>>

\* The run found a ledger file that it could not parse.
CorruptStart == events # <<>> /\ events[1] = Event("ledger_read", "corrupt")
\* The documents of the run persisted under the id, by position.
PersistedAs(id) ==
    {k \in 1..Len(outcomes) :
        /\ Str(articles[k].id) = id
        /\ outcomes[k].class \in {"new", "updated"} /\ outcomes[k].io = "ok"}
LedgerOfThisRun ==
    /\ ledgerFile.state = "ok"
    /\ DOMAIN ledgerFile.data = PersistedThisRun
    /\ \A id \in DOMAIN ledgerFile.data :
          \E k \in PersistedAs(id) :
              ledgerFile.data[id].content_hash = calculate_content_hash(articles[k].body)

\* C18 as stated: a run that finds an unreadable ledger file goes on with an
\* empty ledger, classifies every document that has an id new, and the ledger
\* it writes holds exactly the documents it persisted.
C18_Original ==
    CorruptStart =>
        /\ snapshot = EmptyDict
        /\ \A k \in 1..Len(outcomes) : articles[k].id # None => outcomes[k].class = "new"
        /\ LedgerWritten => LedgerOfThisRun

\* C18 as amended: the same, a document being classified new unless a document
\* with the same id was persisted earlier in the run.
C18_FullClassification ==
    CorruptStart =>
        /\ snapshot = EmptyDict
        /\ \A k \in 1..Len(outcomes) :
              (/\ articles[k].id # None
               /\ \A m \in 1..(k - 1) : ~(outcomes[m].saved /\ articles[m].id = articles[k].id))
                 => outcomes[k].class = "new"
        /\ LedgerWritten => LedgerOfThisRun

\* A run from an unreadable ledger file over two documents on disk already:
\* both are new again and the ledger written holds the two.
C18_Witness ==
    /\ CorruptStart
    /\ pc = "done"
    /\ persistedBefore = {"1", "2"}
    /\ Len(outcomes) = 2
    /\ outcomes[1].class = "new" /\ outcomes[2].class = "new"
    /\ LedgerWritten
    /\ DOMAIN ledgerFile.data = {"1", "2"}

\* C19: the run over 12 documents of distinct ids served in pages of 10 and 2,
\* from an empty ledger, with no failure and batch size 10, classifies the 12
\* new, creates 12 directories, saves a ledger of 12 entries and submits 2
\* batches, of 10 files and then of 2.
C19_Scenario ==
    pc = "done" =>
        /\ page_count = 2
        /\ Len(outcomes) = 12
        /\ \A k \in 1..Len(outcomes) : outcomes[k].class = "new" /\ outcomes[k].saved
        /\ new_count = 12 /\ updated_count = 0 /\ skipped_count = 0
        /\ Cardinality(new_articles) = 12 /\ updated_articles = {}
        /\ Cardinality(dirs) = 12
        /\ ledgerFile.state = "ok"
        /\ Cardinality(DOMAIN ledgerFile.data) = 12
        /\ batch_size = 10
        /\ Len(batches) = 2
        /\ Len(batches[1].paths) = 10 /\ Len(batches[2].paths) = 2
        /\ \A k \in 1..2 : batches[k].submitted /\ batches[k].ok

\* The run is over: two pages were fetched and two batches succeeded, on an
\* index created by the run.
C19_Witness ==
    /\ pc = "done"
    /\ Len(source) = 2 /\ Len(articles) = 12
    /\ successful_batches = 2 /\ failed_batches = 0
    /\ total_files_embedded = 12
    /\ stores = <<"other", VECTOR_STORE_NAME>> /\ vector_store_id = 2
    /\ Logged("create")

\* C20: with an empty delta set the upload stage returns at once: it ends the
\* run without raising, submits no batch, and neither looks up nor creates an
\* index on the service.
C20_EmptyDelta ==
    /\ [][(pc = "upload" /\ DeltaSet = {} /\ pc' # "upload") =>
             /\ pc' = "done"
             /\ events' = Append(events, Event("upload_end", "no_articles"))
             /\ stores' = stores
             /\ budget' = budget
             /\ vector_store_id' = 0
             /\ batches' = <<>> /\ total_files_embedded' = 0
         ]_vars
    /\ []((pc = "done" /\ DeltaSet = {}) =>
             /\ ~Logged("lookup") /\ ~Logged("create") /\ ~Logged("upload_failed")
             /\ batches = <<>>
             /\ successful_batches = 0 /\ failed_batches = 0)

\* A later run that found its one document unchanged: the index of the earlier
\* run exists and was not looked up.
C20_Witness ==
    /\ pc = "done"
    /\ runs = 2
    /\ DeltaSet = {}
    /\ Len(outcomes) = 1 /\ outcomes[1].class = "skipped"
    /\ stores = <<VECTOR_STORE_NAME>>
    /\ Logged("upload_end") /\ ~Logged("lookup")

IsPunct(c) == ~IsWord(c) /\ ~IsSpace(c) /\ c # "-"
\* Every maximal run of punctuation marks becomes one '-'.
RECURSIVE SubPunctRuns(_)
SubPunctRuns(s) ==
    IF s = <<>> THEN <<>>
    ELSE IF IsPunct(Head(s))
         THEN IF Len(s) > 1 /\ IsPunct(s[2])
              THEN SubPunctRuns(Tail(s))
              ELSE <<"-">> \o SubPunctRuns(Tail(s))
         ELSE <<Head(s)>> \o SubPunctRuns(Tail(s))

\* C21: the slug stored for a persisted document is its title with every
\* maximal run of punctuation replaced by one '-', every run of whitespace
\* replaced by one '-', and the leading and trailing '-' removed.
C21_SlugOfRuns ==
    \A k \in 1..Len(outcomes) :
        outcomes[k].saved =>
            tracked_metadata[Str(articles[k].id)].clean_title
                = Strip(SubSpaces(SubPunctRuns(articles[k].title)))

\* C22: when a document is persisted, the content_hash of its sidecar and the
\* content_hash of its ledger entry are both the hash of its raw body, whether
\* the conversion succeeded or produced the degraded document.
C22_RoundTrip ==
    [][(ProcessStep /\ outcomes'[i].saved) =>
          /\ sidecars'[CurId].kind = "metadata"
          /\ sidecars'[CurId].content_hash = calculate_content_hash(articles[i].body)
          /\ tracked_metadata'[CurId].content_hash = sidecars'[CurId].content_hash
      ]_vars

\* A persisted document whose raw body differs from its rendering and whose
\* conversion failed: sidecar and ledger hold the hash of the raw body.
C22_Witness ==
    \E k \in 1..Len(outcomes) :
        LET id == Str(articles[k].id) IN
        /\ outcomes[k].saved /\ ~outcomes[k].render_ok
        /\ Render(articles[k].body) # articles[k].body
        /\ id \in DOMAIN sidecars /\ id \in DOMAIN tracked_metadata
        /\ sidecars[id].content_hash = calculate_content_hash(articles[k].body)
        /\ tracked_metadata[id].content_hash = calculate_content_hash(articles[k].body)

\* C23: a document whose conversion fails is still classified, its content
\* file holds the degraded document (the title and the conversion-failed
\* marker), it is persisted like any other when its writes succeed, and the
\* loop goes on: every fetched document of the run is processed.
C23_RenderFailureContained ==
    /\ [][(ProcessStep /\ ~outcomes'[i].render_ok) =>
             /\ outcomes'[i].class \in {"new", "updated"}
             /\ outcomes'[i].io \in {"ok", "meta_write"} =>
                   mdFiles'[CurPath].content
                       = [kind |-> "failed", title |-> articles[i].title, text |-> 0]
             /\ outcomes'[i].io = "ok" =>
                   /\ outcomes'[i].saved
                   /\ CurId \in DeltaSet'
                   /\ tracked_metadata'[CurId].content_hash = CurHash
             /\ pc' = "process" /\ i' = i + 1
         ]_vars
    /\ [](Logged("scrape_summary") => Len(outcomes) = Len(articles))

\* The conversion of the first of two documents failed: it was persisted with
\* the degraded content and the second was processed and persisted too.
C23_Witness ==
    /\ pc = "done"
    /\ Len(outcomes) = 2
    /\ ~outcomes[1].render_ok /\ outcomes[1].saved
    /\ outcomes[2].saved /\ articles[1].id # articles[2].id
    /\ mdFiles[MdPath(Str(articles[1].id), clean_title_of(articles[1].title))].content.kind
          = "failed"
    /\ successful_batches = 1

\* C24: once the scrape stage is over the sets new_articles and
\* updated_articles are disjoint, and the number of articles the upload stage
\* announces is the number of distinct ids it validates.
C24_DisjointSets ==
    pc \in {"upload", "batch", "done"} =>
        /\ new_articles \cap updated_articles = {}
        /\ Cardinality(new_articles) + Cardinality(updated_articles)
              = Cardinality(DeltaSet)

\* C25: once the scrape stage is over, every id of the delta set has a ledger
\* entry, and the path derived from the slug stored in that entry is the path
\* of a content file that a document of this id was persisted to in this run
\* and that exists; so validation, with no file deleted in between, finds
\* every path and reports none missing.
C25_DeltaPathsExist ==
    /\ pc \in {"upload", "batch", "done"} =>
          \A id \in DeltaSet :
              /\ id \in DOMAIN tracked_metadata
              /\ Exists(get_article_file_path(id, tracked_metadata))
              /\ \E k \in 1..Len(outcomes) :
                    /\ Str(articles[k].id) = id
                    /\ outcomes[k].saved
                    /\ MdPath(id, clean_title_of(articles[k].title))
                          = get_article_file_path(id, tracked_metadata)
    /\ pc \in {"batch", "done"} =>
          /\ missing_paths = <<>>
          /\ vector_store_id # 0 => Len(valid_paths) = Cardinality(DeltaSet)

\* The same id fetched twice with two titles and two bodies: the path
\* validated is the one of the second title.
C25_Witness ==
    /\ pc = "done"
    /\ Len(outcomes) = 2
    /\ outcomes[1].saved /\ outcomes[2].saved
    /\ clean_title_of(articles[1].title) # clean_title_of(articles[2].title)
    /\ valid_paths = <<MdPath("1", clean_title_of(articles[2].title))>>
    /\ successful_batches = 1

\* What the batches whose submission did not raise add up to.
RECURSIVE SumOk(_, _)
SumOk(bs, completed) ==
    IF bs = <<>> THEN 0
    ELSE (IF Head(bs).ok
          THEN (IF completed THEN Head(bs).completed ELSE Len(Head(bs).paths))
          ELSE 0)
         + SumOk(Tail(bs), completed)

\* C26: at the summary of the upload stage the successful and the failed
\* batches add up to the planned ceil(N/B), the total of files embedded is the
\* sum of the sizes of the batches whose submission did not raise, and that
\* total is at most the number of files the service reported completed for
\* those batches.
C26_Totals ==
    Logged("upload_summary") =>
        /\ successful_batches + failed_batches = Ceil(Len(valid_paths), batch_size)
        /\ total_batches = Ceil(Len(valid_paths), batch_size)
        /\ total_files_embedded = SumOk(batches, FALSE)
        /\ total_files_embedded <= SumOk(batches, TRUE)

\* The part of C26 that is about the batches and the files submitted.
C26_Submitted ==
    Logged("upload_summary") =>
        /\ successful_batches + failed_batches = Ceil(Len(valid_paths), batch_size)
        /\ total_files_embedded = SumOk(batches, FALSE)
        /\ total_chunks_embedded = SumOk(batches, TRUE)

\* The document at position k is the document d of the run before.
IsDoc(k, d) == Str(articles[k].id) = d.id /\ articles[k].body = d.body

\* C27: a changed document whose write fails is reported skipped: the step
\* counts it in skipped and leaves the delta set and the ledger as they were,
\* so its id is in the delta set only if the run persisted a document of this
\* id at another place; and a run that fetches, with the same body, a document
\* whose write failed in the run before classifies it new or updated again.
C27_RetryAfterFailedWrite ==
    /\ [][(ProcessStep /\ outcomes'[i].class \in {"new", "updated"}
                       /\ outcomes'[i].io # "ok") =>
             /\ outcomes'[i].status = "skipped"
             /\ skipped_count' = skipped_count + 1
             /\ new_count' = new_count /\ updated_count' = updated_count
             /\ LedgerFrame
          ]_vars
    /\ [](pc \in {"upload", "batch", "done"} =>
            /\ \A k \in 1..Len(outcomes) :
                  (/\ outcomes[k].class \in {"new", "updated"}
                   /\ outcomes[k].io # "ok"
                   /\ Str(articles[k].id) \notin PersistedThisRun)
                      => Str(articles[k].id) \notin DeltaSet
            /\ \A d \in failedBefore :
                  (\E k \in 1..Len(outcomes) : IsDoc(k, d))
                      => \E k \in 1..Len(outcomes) :
                            IsDoc(k, d) /\ outcomes[k].class \in {"new", "updated"})
====
